---- MODULE Spec2Model ----
(***************************************************************************)
(* Model of libportability-gfx/src/handle.rs: the opaque handles Handle<T> *)
(* and DispatchHandle<T>, the heap allocations behind them, and the        *)
(* diagnostics registry of the "nightly" feature.                          *)
(*                                                                         *)
(* A handle is an address.  The model pairs every handle value with the    *)
(* generation of its address (how many allocations had been initialized    *)
(* there when the handle was made): the code never sees it, the properties *)
(* use it to tell a live handle from a stale one whose address the         *)
(* allocator has handed out again.                                         *)
(*                                                                         *)
(* The operations are modelled twice: as whole steps of one caller (Spec,  *)
(* SpecD, SpecEq), and, for a diagnostic build, cut at the registry's      *)
(* mutex and run by several threads (SpecT, SpecTFair).                    *)
(***************************************************************************)
EXTENDS Integers, FiniteSets, Sequences, TLC

\* Bounds of the model: addresses of the heap, allocations initialized in
\* one run, payload values, threads.
MaxAddr == 2
MaxAllocs == 2
MaxVal == 2
MaxThreads == 2

\* crate::VK_NULL_HANDLE, the null sentinel (handle.rs:1 imports it).
VK_NULL_HANDLE == 0

\* dispatch::ICD_LOADER_MAGIC (152): 0x01CDC0DE.
ICD_LOADER_MAGIC == 30261470

Addrs == 1..MaxAddr
Values == 1..MaxVal
\* What type_name::<T>() gives for the payload types in use.
TypeNames == {"TA", "TB"}
Threads == 1..MaxThreads
NoThread == 0

VARIABLES
    nightly,            \* cfg(feature = "nightly"): the diagnostic build
    debug_assertions,   \* cfg(debug_assertions): debug_assert! is compiled in
    heap,               \* the allocator's memory: address -> cell
    registry,           \* REGISTRY: address -> type name
    poisoned,           \* REGISTRY's mutex is poisoned
    issued,             \* address -> the kinds of the handles made for it, in order
    drained,            \* report_leaks has run
    last,               \* the last operation, its arguments and its result
    halted,             \* the process has ended (panic, fault)
    ub,                 \* the last operation had undefined behaviour
    thr,                \* thread -> where it is in its operation, and on what
    lock                \* the thread that holds REGISTRY's mutex, or NoThread

vars == <<nightly, debug_assertions, heap, registry, poisoned, issued, drained,
          last, halted, ub, thr, lock>>

----------------------------------------------------------------------------
\* Memory cells.  st: "free", "raw" (Box::alloc() storage of a
\* HandleAllocation, not initialized), "live" (an initialized T), "rawD"
\* (storage of a DisplatchHandleAllocation), "liveD" (an initialized
\* (u64, T): tag is field 0, val is field 1).
\* gen and lastw are history: the generation of the allocation, and the last
\* value that init or a handle of the allocation wrote.
FreeCell == [st |-> "free", gen |-> 0, tag |-> 0, val |-> 0, lastw |-> 0]
RawCell == [FreeCell EXCEPT !.st = "raw"]

NullHandle == [addr |-> VK_NULL_HANDLE, gen |-> 0]

\* The handle values of one kind the caller may hold: null and every handle
\* ever returned (Handle is Copy: consuming one copy leaves the others).
Handles(kind) ==
    {NullHandle} \cup
    {[addr |-> a, gen |-> g] : <<a, g>> \in
        {x \in Addrs \X (1..MaxAllocs + 1) :
            x[2] <= Len(issued[x[1]]) /\ issued[x[1]][x[2]] = kind}}

RECURSIVE SumLen(_)
SumLen(S) ==
    IF S = {} THEN 0
    ELSE LET a == CHOOSE x \in S : TRUE IN Len(issued[a]) + SumLen(S \ {a})

\* Allocations initialized so far.
TotalIssued == SumLen(Addrs)

FreeAddrs == {a \in Addrs : heap[a].st = "free"}

\* The handle still refers to the allocation it was made for.
Valid(h) ==
    /\ h.addr \in Addrs
    /\ heap[h.addr].st \in {"live", "liveD"}
    /\ heap[h.addr].gen = h.gen

\* A thread that is in no operation and has run none.
IdleThread == [pc |-> "idle", op |-> "", h |-> NullHandle, rk |-> ""]

NoRegistry == [a \in {} |-> ""]
NoLines == [t \in TypeNames |-> 0]

\* The record of an operation: its name, the handle it was called on, a second
\* handle (the other operand of eq, the result of clone), the kind and the
\* value of its result, the lines report_leaks printed, and, where a property
\* needs it, what the operation directly followed.
Rec(op, h, h2, rk, rv, out) ==
    [op |-> op, h |-> h, h2 |-> h2, rk |-> rk, rv |-> rv, out |-> out,
     after |-> CASE op \in {"unbox", "dunbox"} /\ last.op \in {"new", "dnew"}
                        /\ last.h = h -> "new"
                 [] op = "unbox" /\ last.op = "unbox" /\ last.h = h
                        /\ last.rk = "Some" -> "unbox"
                 [] op = "report_leaks" /\ last.op = "report_leaks" -> "report"
                 [] op \in {"as_ref", "deref", "borrow"}
                        /\ last.op \in {"as_mut", "deref_mut"} /\ last.h = h
                        /\ last.rk \in {"Some", "Ref"} -> "write"
                 [] op = "dderef_mut" /\ last.op \in {"dnew", "dinit"}
                        /\ last.h = h /\ last.rv # rv -> "changed"
                 [] OTHER -> ""]

\* The outcomes of an access through a pointer that is null or dangling:
\* the access faults, or it reads whatever value lies there.
UBOutcomes(kind) ==
    {<<kind, v>> : v \in Values} \cup {<<"fault", 0>>}

----------------------------------------------------------------------------
Init ==
    /\ nightly \in BOOLEAN
    /\ debug_assertions \in BOOLEAN
    /\ nightly => debug_assertions   \* check() of a nightly build has no debug_assert!
    /\ heap = [a \in Addrs |-> FreeCell]
    /\ registry = NoRegistry
    /\ poisoned = FALSE
    /\ issued = [a \in Addrs |-> <<>>]
    /\ drained = FALSE
    /\ last = [op |-> "start", h |-> NullHandle, h2 |-> NullHandle, rk |-> "unit",
               rv |-> 0, out |-> NoLines, after |-> ""]
    /\ halted = FALSE
    /\ ub = FALSE
    /\ thr = [t \in Threads |-> IdleThread]
    /\ lock = NoThread

\* An assertion failure or a failed unwrap(): the operation panics and the
\* process ends.
Panic(op, h) ==
    /\ last' = Rec(op, h, NullHandle, "panic", 0, NoLines)
    /\ halted' = TRUE

\* An access through a null or dangling pointer: undefined behaviour.
Undefined(op, h, kind) ==
    /\ \E o \in UBOutcomes(kind) :
        last' = Rec(op, h, NullHandle, o[1], o[2], NoLines)
    /\ halted' = TRUE
    /\ ub' = TRUE

\* REGISTRY.lock().unwrap() (28, 45, 71, 90) returns the guard unless the
\* mutex is poisoned.
LockOk == ~poisoned

\* Mutant: the entry is not put into the map.
RegistryInsertNothing(reg, a, name) == reg

\* HashMap::insert (45).
RegistryInsert(reg, a, name) ==
    [x \in (DOMAIN reg) \cup {a} |-> IF x = a THEN name ELSE reg[x]]

\* Mutant: the entry is left in the map.
RegistryRemoveNothing(reg, a) == reg

\* HashMap::remove (71).
RegistryRemove(reg, a) ==
    [x \in (DOMAIN reg) \ {a} |-> reg[x]]

\* Mutant: the Option that remove() gives is dropped, not unwrapped.
UnwrapNeverFails(reg, a) == FALSE

\* remove(..).unwrap() (71) panics when the map held no entry for the key.
UnwrapFails(reg, a) == a \notin DOMAIN reg

\* HashMap::contains_key (90).
RegistryContains(reg, a) == a \in DOMAIN reg

\* Mutant: the storage is handed out without the value written to it.
InitCellUnwritten(v) ==
    [FreeCell EXCEPT !.st = "live"]

\* self.0.init(value) (40): the storage now holds value.
InitCell(v) ==
    [FreeCell EXCEPT !.st = "live", !.val = v]

\* Mutant: the write goes to a copy of the payload, not to the allocation.
WriteCellLost(cell, w) == cell

\* A write of w through a &mut T made from the handle's address (118, 82).
WriteCell(cell, w) ==
    [cell EXCEPT !.val = w]

\* A read through a &T made from the handle's address (111, 125, 78).
ReadCell(cell) == cell.val

\* The history fields of a cell after init and after a write.
Born(cell, g, v) == [cell EXCEPT !.gen = g, !.lastw = v]
Wrote(cell, w) == [cell EXCEPT !.lastw = w]

\* Mutant: unbox without its null test.
UnboxIsNullNever(h) == FALSE

\* self.0 == VK_NULL_HANDLE as *mut T (66).
UnboxIsNull(h) == h.addr = VK_NULL_HANDLE

\* *unsafe { Box::from_raw(self.0) } (73): the payload, moved out.
UnboxValue(cell) == cell.val

\* Mutant: Some(&*self.0) whatever the pointer.
PtrIsNullNever(h) == FALSE

\* <*mut T>::as_ref / as_mut (78, 82) give None for the null pointer.
PtrIsNull(h) == h.addr = 0

\* Mutant: the check of a build without the nightly feature, in every build.
CheckNonNullOnly(h) == debug_assertions => ~(h.addr = 0)

\* Handle::check (86-97).  TRUE when check returns, FALSE when it panics.
Check(h) ==
    IF nightly
    THEN LockOk /\ RegistryContains(registry, h.addr)
    ELSE debug_assertions => ~(h.addr = 0)

\* Mutant: a structural comparison, of the payloads.
HandleEqPayload(h1, h2) ==
    \/ h1.addr = h2.addr
    \/ /\ Valid(h1)
       /\ Valid(h2)
       /\ heap[h1.addr].val = heap[h2.addr].val

\* PartialEq for Handle (129-133): self.0.eq(&other.0).
HandleEq(h1, h2) == h1.addr = h2.addr

\* Clone for Handle (99-103): *self.
HandleClone(h) == h

\* Mutant: one line for each type name in the map, not for each entry.
DrainLinesOnce(reg) ==
    [t \in TypeNames |-> IF \E a \in DOMAIN reg : reg[a] = t THEN 1 ELSE 0]

\* The lines report_leaks prints after its header (29-31): one per entry of
\* the drained map, holding the entry's type name (the key is dropped).  The
\* map is drained in no particular order: the lines are counted by content.
DrainLines(reg) ==
    [t \in TypeNames |-> Cardinality({a \in DOMAIN reg : reg[a] = t})]

\* Mutant: the map is iterated, not drained.
DrainRestAll(reg) == reg

\* What map.drain() leaves in the map (29).
DrainRest(reg) == NoRegistry

RECURSIVE SumLines(_, _)
SumLines(out, S) ==
    IF S = {} THEN 0
    ELSE LET t == CHOOSE x \in S : TRUE IN out[t] + SumLines(out, S \ {t})

\* The number of lines printed after the header.
LineCount(out) == SumLines(out, TypeNames)

----------------------------------------------------------------------------
\* Handle::alloc (52-54): Box::alloc() takes storage for one T.
Alloc ==
    /\ ~halted
    /\ \E a \in FreeAddrs :
        /\ heap' = [heap EXCEPT ![a] = RawCell]
        /\ last' = Rec("alloc", NullHandle, NullHandle, "token", a, NoLines)
    /\ UNCHANGED <<nightly, debug_assertions, registry, poisoned, issued,
                   drained, halted, ub, thr, lock>>

\* HandleAllocation::init (39-48) on the storage at a.
InitAt(op, a, v, ty) ==
    LET g == Len(issued[a]) + 1
        h == [addr |-> a, gen |-> g]
    IN  /\ heap' = [heap EXCEPT ![a] = Born(InitCell(v), g, v)]
        /\ issued' = [issued EXCEPT ![a] = Append(@, "H")]
        /\ IF nightly /\ ~LockOk
           THEN /\ Panic(op, h)
                /\ UNCHANGED registry
           ELSE /\ registry' = IF nightly THEN RegistryInsert(registry, a, ty)
                                ELSE registry
                /\ last' = Rec(op, h, NullHandle, "handle", v, NoLines)
                /\ UNCHANGED halted
        /\ UNCHANGED <<nightly, debug_assertions, poisoned, drained, ub, thr,
                       lock>>

HandleInit ==
    /\ ~halted
    /\ TotalIssued < MaxAllocs
    /\ \E a \in {x \in Addrs : heap[x].st = "raw"}, v \in Values, ty \in TypeNames :
        InitAt("init", a, v, ty)

\* Handle::new (57-59): Self::alloc().init(value).
New ==
    /\ ~halted
    /\ TotalIssued < MaxAllocs
    /\ \E a \in FreeAddrs, v \in Values, ty \in TypeNames :
        InitAt("new", a, v, ty)

\* Handle::null (61-63).
Null ==
    /\ ~halted
    /\ last' = Rec("null", NullHandle, NullHandle, "handle", 0, NoLines)
    /\ UNCHANGED <<nightly, debug_assertions, heap, registry, poisoned, issued,
                   drained, halted, ub, thr, lock>>

\* Handle::unbox (65-75).
UnboxOf(h) ==
    /\ IF UnboxIsNull(h)
       THEN /\ last' = Rec("unbox", h, NullHandle, "None", 0, NoLines)
            /\ UNCHANGED <<heap, registry, poisoned, halted, ub>>
       ELSE IF nightly /\ ~LockOk
       THEN /\ Panic("unbox", h)
            /\ UNCHANGED <<heap, registry, poisoned, ub>>
       ELSE IF nightly /\ UnwrapFails(registry, h.addr)
       THEN \* remove() gave None and unwrap() panics while the guard is held
            /\ Panic("unbox", h)
            /\ poisoned' = TRUE
            /\ UNCHANGED <<heap, registry, ub>>
       ELSE /\ registry' = IF nightly THEN RegistryRemove(registry, h.addr)
                           ELSE registry
            /\ UNCHANGED poisoned
            /\ IF Valid(h)
               THEN /\ heap' = [heap EXCEPT ![h.addr] = FreeCell]
                    /\ last' = Rec("unbox", h, NullHandle, "Some",
                                   UnboxValue(heap[h.addr]), NoLines)
                    /\ UNCHANGED <<halted, ub>>
               ELSE \* Box::from_raw of a pointer whose allocation is gone:
                    \* what now lies at the address is given back
                    /\ Undefined("unbox", h, "Some")
                    /\ heap' = [heap EXCEPT ![h.addr] =
                                   IF @.st \in {"live", "liveD"} THEN FreeCell ELSE @]
    /\ UNCHANGED <<nightly, debug_assertions, issued, drained, thr, lock>>

Unbox ==
    /\ ~halted
    /\ \E h \in Handles("H") : UnboxOf(h)

\* Handle::as_ref (77-79) and a read through the reference.
AsRef ==
    /\ ~halted
    /\ \E h \in Handles("H") :
        IF PtrIsNull(h)
        THEN /\ last' = Rec("as_ref", h, NullHandle, "None", 0, NoLines)
             /\ UNCHANGED <<halted, ub>>
        ELSE IF Valid(h)
        THEN /\ last' = Rec("as_ref", h, NullHandle, "Some",
                            ReadCell(heap[h.addr]), NoLines)
             /\ UNCHANGED <<halted, ub>>
        ELSE Undefined("as_ref", h, "Some")
    /\ UNCHANGED <<nightly, debug_assertions, heap, registry, poisoned, issued,
                   drained, thr, lock>>

\* Handle::as_mut (81-83) and a write of w through the reference.
AsMut ==
    /\ ~halted
    /\ \E h \in Handles("H"), w \in Values :
        IF PtrIsNull(h)
        THEN /\ last' = Rec("as_mut", h, NullHandle, "None", 0, NoLines)
             /\ UNCHANGED <<heap, halted, ub>>
        ELSE IF Valid(h)
        THEN /\ heap' = [heap EXCEPT ![h.addr] = Wrote(WriteCell(@, w), w)]
             /\ last' = Rec("as_mut", h, NullHandle, "Some", w, NoLines)
             /\ UNCHANGED <<halted, ub>>
        ELSE /\ Undefined("as_mut", h, "Some")
             /\ UNCHANGED heap
    /\ UNCHANGED <<nightly, debug_assertions, registry, poisoned, issued,
                   drained, thr, lock>>

\* deref (109-112) and borrow (123-126): check(), then &*self.0, and a read.
ReadThrough(op, h) ==
    /\ IF ~Check(h)
       THEN /\ Panic(op, h)
            /\ UNCHANGED ub
       ELSE IF Valid(h)
       THEN /\ last' = Rec(op, h, NullHandle, "Ref", ReadCell(heap[h.addr]), NoLines)
            /\ UNCHANGED <<halted, ub>>
       ELSE Undefined(op, h, "Ref")
    /\ UNCHANGED <<nightly, debug_assertions, heap, registry, poisoned, issued,
                   drained, thr, lock>>

Deref ==
    /\ ~halted
    /\ \E h \in Handles("H") : ReadThrough("deref", h)

Borrow ==
    /\ ~halted
    /\ \E h \in Handles("H") : ReadThrough("borrow", h)

\* deref_mut (116-119): check(), then &mut *self.0, and a write of w.
DerefMut ==
    /\ ~halted
    /\ \E h \in Handles("H"), w \in Values :
        IF ~Check(h)
        THEN /\ Panic("deref_mut", h)
             /\ UNCHANGED <<heap, ub>>
        ELSE IF Valid(h)
        THEN /\ heap' = [heap EXCEPT ![h.addr] = Wrote(WriteCell(@, w), w)]
             /\ last' = Rec("deref_mut", h, NullHandle, "Ref", w, NoLines)
             /\ UNCHANGED <<halted, ub>>
        ELSE /\ Undefined("deref_mut", h, "Ref")
             /\ UNCHANGED heap
    /\ UNCHANGED <<nightly, debug_assertions, registry, poisoned, issued,
                   drained, thr, lock>>

\* Clone / Copy for Handle (99-105).
Clone ==
    /\ ~halted
    /\ \E h \in Handles("H") :
        last' = Rec("clone", h, HandleClone(h), "handle", 0, NoLines)
    /\ UNCHANGED <<nightly, debug_assertions, heap, registry, poisoned, issued,
                   drained, halted, ub, thr, lock>>

\* PartialEq::eq (129-133).
Eq ==
    /\ ~halted
    /\ \E h1 \in Handles("H"), h2 \in Handles("H") :
        last' = Rec("eq", h1, h2, "bool", IF HandleEq(h1, h2) THEN 1 ELSE 0, NoLines)
    /\ UNCHANGED <<nightly, debug_assertions, heap, registry, poisoned, issued,
                   drained, halted, ub, thr, lock>>

\* Handle::report_leaks (26-32), compiled only with the nightly feature.
ReportLeaks ==
    /\ ~halted
    /\ nightly
    /\ IF ~LockOk
       THEN /\ Panic("report_leaks", NullHandle)
            /\ UNCHANGED <<registry, drained>>
       ELSE /\ registry' = DrainRest(registry)
            /\ drained' = TRUE
            /\ last' = Rec("report_leaks", NullHandle, NullHandle, "unit",
                           LineCount(DrainLines(registry)), DrainLines(registry))
            /\ UNCHANGED halted
    /\ UNCHANGED <<nightly, debug_assertions, heap, poisoned, issued, ub, thr,
                   lock>>

----------------------------------------------------------------------------
\* mod dispatch (146-235), compiled with the "dispatch" feature.  Without it
\* DispatchHandle<T> is Handle<T> (144) and the operations above are its model.

\* self.0.init((ICD_LOADER_MAGIC, value)) (162).
DInitCell(v) ==
    [FreeCell EXCEPT !.st = "liveD", !.tag = ICD_LOADER_MAGIC, !.val = v]

\* Mutant: field 0 of the pair is returned.
DUnboxValueTag(cell) == cell.tag

\* unsafe { Box::from_raw(self.0) }.1 (184).
DUnboxValue(cell) == cell.val

\* &(*self.0).1 (192, 208, 220) and a read.
DReadCell(cell) == cell.val

\* Mutant: the reference is to field 0 of the pair.
DWriteCellField0(cell, w) == [cell EXCEPT !.tag = w]

\* Mutant: the write goes to a copy of the payload, not to the allocation.
DWriteCellCopy(cell, w) == cell

\* &mut (*self.0).1 (214) and a write of w.
DWriteCell(cell, w) == [cell EXCEPT !.val = w]

\* self.0 == VK_NULL_HANDLE as *mut (u64, T) (181, 189).
DIsNull(h) == h.addr = VK_NULL_HANDLE

\* PartialEq for DispatchHandle (224-228).
DHandleEq(h1, h2) == h1.addr = h2.addr

\* Clone for DispatchHandle (197-201).
DHandleClone(h) == h

\* DispatchHandle::alloc (168-170).
DAlloc ==
    /\ ~halted
    /\ \E a \in FreeAddrs :
        /\ heap' = [heap EXCEPT ![a] = [FreeCell EXCEPT !.st = "rawD"]]
        /\ last' = Rec("dalloc", NullHandle, NullHandle, "token", a, NoLines)
    /\ UNCHANGED <<nightly, debug_assertions, registry, poisoned, issued,
                   drained, halted, ub, thr, lock>>

\* Mutant: init of a dispatchable allocation registers its address, as
\* HandleAllocation::init does.
DInitAtRegistered(op, a, v) ==
    LET g == Len(issued[a]) + 1
    IN  /\ heap' = [heap EXCEPT ![a] = Born(DInitCell(v), g, v)]
        /\ issued' = [issued EXCEPT ![a] = Append(@, "D")]
        /\ registry' = IF nightly THEN RegistryInsert(registry, a, "TA") ELSE registry
        /\ last' = Rec(op, [addr |-> a, gen |-> g], NullHandle, "handle", v, NoLines)
        /\ UNCHANGED <<nightly, debug_assertions, poisoned, drained, halted, ub,
                       thr, lock>>

\* DisplatchHandleAllocation::init (161-164) on the storage at a.
DInitAt(op, a, v) ==
    LET g == Len(issued[a]) + 1
    IN  /\ heap' = [heap EXCEPT ![a] = Born(DInitCell(v), g, v)]
        /\ issued' = [issued EXCEPT ![a] = Append(@, "D")]
        /\ last' = Rec(op, [addr |-> a, gen |-> g], NullHandle, "handle", v, NoLines)
        /\ UNCHANGED <<nightly, debug_assertions, registry, poisoned, drained,
                       halted, ub, thr, lock>>

DInit ==
    /\ ~halted
    /\ TotalIssued < MaxAllocs
    /\ \E a \in {x \in Addrs : heap[x].st = "rawD"}, v \in Values :
        DInitAt("dinit", a, v)

\* DispatchHandle::new (172-174).
DNew ==
    /\ ~halted
    /\ TotalIssued < MaxAllocs
    /\ \E a \in FreeAddrs, v \in Values : DInitAt("dnew", a, v)

\* DispatchHandle::null (176-178).
DNull ==
    /\ ~halted
    /\ last' = Rec("dnull", NullHandle, NullHandle, "handle", 0, NoLines)
    /\ UNCHANGED <<nightly, debug_assertions, heap, registry, poisoned, issued,
                   drained, halted, ub, thr, lock>>

\* DispatchHandle::unbox (180-186).
DUnbox ==
    /\ ~halted
    /\ \E h \in Handles("D") :
        IF DIsNull(h)
        THEN /\ last' = Rec("dunbox", h, NullHandle, "None", 0, NoLines)
             /\ UNCHANGED <<heap, halted, ub>>
        ELSE IF Valid(h)
        THEN /\ heap' = [heap EXCEPT ![h.addr] = FreeCell]
             /\ last' = Rec("dunbox", h, NullHandle, "Some",
                            DUnboxValue(heap[h.addr]), NoLines)
             /\ UNCHANGED <<halted, ub>>
        ELSE /\ Undefined("dunbox", h, "Some")
             /\ heap' = [heap EXCEPT ![h.addr] =
                            IF @.st \in {"live", "liveD"} THEN FreeCell ELSE @]
    /\ UNCHANGED <<nightly, debug_assertions, registry, poisoned, issued,
                   drained, thr, lock>>

\* DispatchHandle::as_ref (188-194) and a read through the reference.
DAsRef ==
    /\ ~halted
    /\ \E h \in Handles("D") :
        IF DIsNull(h)
        THEN /\ last' = Rec("das_ref", h, NullHandle, "None", 0, NoLines)
             /\ UNCHANGED <<halted, ub>>
        ELSE IF Valid(h)
        THEN /\ last' = Rec("das_ref", h, NullHandle, "Some",
                            DReadCell(heap[h.addr]), NoLines)
             /\ UNCHANGED <<halted, ub>>
        ELSE Undefined("das_ref", h, "Some")
    /\ UNCHANGED <<nightly, debug_assertions, heap, registry, poisoned, issued,
                   drained, thr, lock>>

\* deref (207-209) and borrow (219-221) of DispatchHandle: no check.
DReadThrough(op, h) ==
    /\ IF Valid(h)
       THEN /\ last' = Rec(op, h, NullHandle, "Ref", DReadCell(heap[h.addr]), NoLines)
            /\ UNCHANGED <<halted, ub>>
       ELSE Undefined(op, h, "Ref")
    /\ UNCHANGED <<nightly, debug_assertions, heap, registry, poisoned, issued,
                   drained, thr, lock>>

DDeref ==
    /\ ~halted
    /\ \E h \in Handles("D") : DReadThrough("dderef", h)

DBorrow ==
    /\ ~halted
    /\ \E h \in Handles("D") : DReadThrough("dborrow", h)

\* deref_mut (213-215) of DispatchHandle and a write of w.
DDerefMut ==
    /\ ~halted
    /\ \E h \in Handles("D"), w \in Values :
        IF Valid(h)
        THEN /\ heap' = [heap EXCEPT ![h.addr] = Wrote(DWriteCell(@, w), w)]
             /\ last' = Rec("dderef_mut", h, NullHandle, "Ref", w, NoLines)
             /\ UNCHANGED <<halted, ub>>
        ELSE /\ Undefined("dderef_mut", h, "Ref")
             /\ UNCHANGED heap
    /\ UNCHANGED <<nightly, debug_assertions, registry, poisoned, issued,
                   drained, thr, lock>>

\* Clone / Copy for DispatchHandle (197-203).
DClone ==
    /\ ~halted
    /\ \E h \in Handles("D") :
        last' = Rec("dclone", h, DHandleClone(h), "handle", 0, NoLines)
    /\ UNCHANGED <<nightly, debug_assertions, heap, registry, poisoned, issued,
                   drained, halted, ub, thr, lock>>

\* PartialEq::eq of DispatchHandle (224-228).
DEq ==
    /\ ~halted
    /\ \E h1 \in Handles("D"), h2 \in Handles("D") :
        last' = Rec("deq", h1, h2, "bool", IF DHandleEq(h1, h2) THEN 1 ELSE 0, NoLines)
    /\ UNCHANGED <<nightly, debug_assertions, heap, registry, poisoned, issued,
                   drained, halted, ub, thr, lock>>

----------------------------------------------------------------------------
\* The operations of Handle<T> in a diagnostic build, called from several
\* threads.  Each operation is cut where another thread can run between two
\* of its accesses to shared state: before REGISTRY.lock() returns, and
\* after the MutexGuard is dropped.  thr[t].pc is where thread t is, thr[t].op
\* and thr[t].h the operation it is in and its handle,
\* thr[t].rk how it ended when it did not return.  A panic ends the thread,
\* not the process.  The payloads and the type names play no part here: every
\* allocation holds the value 1 of the type "TA".

\* The handle init is making is not returned yet: no caller holds it.
InInit(u) == thr[u].op = "new"

\* The handles a caller on any thread may hold.
THandles == Handles("H") \ {thr[u].h : u \in {x \in Threads : InInit(x)}}

\* The operation of thread t returns to its caller.
Return(t) == thr' = [thr EXCEPT ![t] = IdleThread]

Goto(t, pc, op, h, rk) ==
    thr' = [thr EXCEPT ![t] = [pc |-> pc, op |-> op, h |-> h, rk |-> rk]]

\* Mutant: lock() returns without waiting for the mutex.
MutexFreeAlways(l) == TRUE

\* Mutex::lock (28, 45, 71, 90) returns once no thread holds the mutex.
MutexFree(l) == l = NoThread

\* Mutant: the guard is leaked (mem::forget), the mutex stays locked.
GuardLeaked(l) == l

\* The MutexGuard is dropped: at the end of the statement that made it (45,
\* 71), at the end of the condition of assert! (90), at the end of
\* report_leaks (32), or while the stack unwinds from a panic.
GuardDropped(l) == NoThread

\* REGISTRY.lock().unwrap() (28, 45, 71, 90): waits for the mutex; panics
\* when the mutex is poisoned, and the guard inside the error is dropped.
Acquire(t, from, to) ==
    /\ ~halted
    /\ thr[t].pc = from
    /\ MutexFree(lock)
    /\ IF ~LockOk
       THEN /\ Goto(t, "panicked", thr[t].op, thr[t].h, "panic")
            /\ UNCHANGED lock
       ELSE /\ Goto(t, to, thr[t].op, thr[t].h, "")
            /\ lock' = t
    /\ UNCHANGED <<nightly, debug_assertions, heap, registry, poisoned, issued,
                   drained, last, halted, ub>>

\* Undefined behaviour on thread t: the process faults, or the operation
\* returns what lies at the address.
TUndefined(t, kind) ==
    /\ \E o \in {kind, "fault"} :
        Goto(t, "undefined", thr[t].op, thr[t].h, o)
    /\ halted' = TRUE
    /\ ub' = TRUE

\* Handle::new (57-59) up to Box::into_raw (40): the allocation exists and is
\* initialized, its address is not registered.
TInitAlloc(t) ==
    /\ ~halted
    /\ thr[t].pc = "idle"
    /\ TotalIssued < MaxAllocs
    /\ \E a \in FreeAddrs :
        LET g == Len(issued[a]) + 1
            v == 1
        IN  /\ heap' = [heap EXCEPT ![a] = Born(InitCell(v), g, v)]
            /\ issued' = [issued EXCEPT ![a] = Append(@, "H")]
            /\ Goto(t, "init_lock", "new", [addr |-> a, gen |-> g], "")
    /\ UNCHANGED <<nightly, debug_assertions, registry, poisoned, drained, last,
                   halted, ub, lock>>

\* REGISTRY.lock().unwrap() of init (45).
TInitLock(t) == Acquire(t, "init_lock", "init_insert")

\* .insert(ptr as _, name) (45), the guard dropped, Handle(ptr) returned (47).
TInitInsert(t) ==
    /\ ~halted
    /\ thr[t].pc = "init_insert"
    /\ registry' = RegistryInsert(registry, thr[t].h.addr, "TA")
    /\ lock' = GuardDropped(lock)
    /\ Return(t)
    /\ UNCHANGED <<nightly, debug_assertions, heap, poisoned, issued, drained,
                   last, halted, ub>>

\* Handle::unbox (65-75) up to the null test (66).
TUnboxStart(t) ==
    /\ ~halted
    /\ thr[t].pc = "idle"
    /\ \E h \in THandles :
        IF UnboxIsNull(h)
        THEN Return(t)
        ELSE Goto(t, "unbox_lock", "unbox", h, "")
    /\ UNCHANGED <<nightly, debug_assertions, heap, registry, poisoned, issued,
                   drained, last, halted, ub, lock>>

\* REGISTRY.lock().unwrap() of unbox (71).
TUnboxLock(t) == Acquire(t, "unbox_lock", "unbox_remove")

\* .remove(&(self.0 as _)).unwrap() (71): unwrap() panics while the guard
\* is alive, and the guard dropped by a panicking thread poisons the mutex.
TUnboxRemove(t) ==
    /\ ~halted
    /\ thr[t].pc = "unbox_remove"
    /\ IF UnwrapFails(registry, thr[t].h.addr)
       THEN /\ Goto(t, "panicked", "unbox", thr[t].h, "panic")
            /\ poisoned' = TRUE
            /\ UNCHANGED registry
       ELSE /\ registry' = RegistryRemove(registry, thr[t].h.addr)
            /\ Goto(t, "unbox_free", "unbox", thr[t].h, "")
            /\ UNCHANGED poisoned
    /\ lock' = GuardDropped(lock)
    /\ UNCHANGED <<nightly, debug_assertions, heap, issued, drained, last,
                   halted, ub>>

\* Some(*unsafe { Box::from_raw(self.0) }) (73).
TUnboxFree(t) ==
    /\ ~halted
    /\ thr[t].pc = "unbox_free"
    /\ IF Valid(thr[t].h)
       THEN /\ heap' = [heap EXCEPT ![thr[t].h.addr] = FreeCell]
            /\ Return(t)
            /\ UNCHANGED <<halted, ub>>
       ELSE /\ TUndefined(t, "Some")
            /\ heap' = [heap EXCEPT ![thr[t].h.addr] =
                           IF @.st \in {"live", "liveD"} THEN FreeCell ELSE @]
    /\ UNCHANGED <<nightly, debug_assertions, registry, poisoned, issued,
                   drained, last, lock>>

\* deref (109-112) up to the call of check (110).
TDerefStart(t) ==
    /\ ~halted
    /\ thr[t].pc = "idle"
    /\ \E h \in THandles : Goto(t, "check_lock", "deref", h, "")
    /\ UNCHANGED <<nightly, debug_assertions, heap, registry, poisoned, issued,
                   drained, last, halted, ub, lock>>

\* REGISTRY.lock().unwrap() of check (90).
TCheckLock(t) == Acquire(t, "check_lock", "check_contains")

\* assert!(... .contains_key(&(self.0 as _))) (90): the guard is dropped
\* before the assertion fails.
TCheckContains(t) ==
    /\ ~halted
    /\ thr[t].pc = "check_contains"
    /\ IF RegistryContains(registry, thr[t].h.addr)
       THEN Goto(t, "deref_read", "deref", thr[t].h, "")
       ELSE Goto(t, "panicked", "deref", thr[t].h, "panic")
    /\ lock' = GuardDropped(lock)
    /\ UNCHANGED <<nightly, debug_assertions, heap, registry, poisoned, issued,
                   drained, last, halted, ub>>

\* unsafe { &*self.0 } (111) and a read through the reference.
TDerefRead(t) ==
    /\ ~halted
    /\ thr[t].pc = "deref_read"
    /\ IF Valid(thr[t].h)
       THEN /\ Return(t)
            /\ UNCHANGED <<halted, ub>>
       ELSE TUndefined(t, "Ref")
    /\ UNCHANGED <<nightly, debug_assertions, heap, registry, poisoned, issued,
                   drained, last, lock>>

\* report_leaks (26-32) up to its header line (27).
TReportStart(t) ==
    /\ ~halted
    /\ thr[t].pc = "idle"
    /\ Goto(t, "report_lock", "report_leaks", NullHandle, "")
    /\ UNCHANGED <<nightly, debug_assertions, heap, registry, poisoned, issued,
                   drained, last, halted, ub, lock>>

\* let mut map = REGISTRY.lock().unwrap() (28).
TReportLock(t) == Acquire(t, "report_lock", "report_drain")

\* for (_, type_id) in map.drain() (29-31), and map dropped (32).
TReportDrain(t) ==
    /\ ~halted
    /\ thr[t].pc = "report_drain"
    /\ registry' = DrainRest(registry)
    /\ drained' = TRUE
    /\ lock' = GuardDropped(lock)
    /\ Return(t)
    /\ UNCHANGED <<nightly, debug_assertions, heap, poisoned, issued, last,
                   halted, ub>>

----------------------------------------------------------------------------
Next ==
    \/ Alloc
    \/ HandleInit
    \/ New
    \/ Null
    \/ Unbox
    \/ AsRef
    \/ AsMut
    \/ Deref
    \/ DerefMut
    \/ Borrow
    \/ Clone
    \/ ReportLeaks

\* A build without the dispatch feature: every handle is a Handle<T>, and the
\* caller allocates, reads, writes, copies and consumes in any order.
Spec == Init /\ [][Next]_vars

\* A diagnostic build with the dispatch feature: the operations of
\* DispatchHandle<T>, beside Handle::new and report_leaks, which fill and
\* drain the registry, on one heap.
InitD ==
    /\ Init
    /\ nightly

NextD ==
    \/ New
    \/ ReportLeaks
    \/ DAlloc
    \/ DInit
    \/ DNew
    \/ DNull
    \/ DUnbox
    \/ DAsRef
    \/ DDeref
    \/ DDerefMut
    \/ DBorrow
    \/ DClone
    \/ DEq

SpecD == InitD /\ [][NextD]_vars

\* Handle identity: the operations that make, copy, consume and compare
\* handles of both kinds.  check() is not reached: debug_assertions is fixed.
InitEq ==
    /\ Init
    /\ debug_assertions

NextEq ==
    \/ New
    \/ Unbox
    \/ Clone
    \/ Eq
    \/ DNew
    \/ DUnbox
    \/ DClone
    \/ DEq

SpecEq == InitEq /\ [][NextEq]_vars

\* A diagnostic build whose callers run on several threads.
InitT ==
    /\ Init
    /\ nightly

NextT ==
    \/ \E t \in Threads : TInitAlloc(t)
    \/ \E t \in Threads : TInitLock(t)
    \/ \E t \in Threads : TInitInsert(t)
    \/ \E t \in Threads : TUnboxStart(t)
    \/ \E t \in Threads : TUnboxLock(t)
    \/ \E t \in Threads : TUnboxRemove(t)
    \/ \E t \in Threads : TUnboxFree(t)
    \/ \E t \in Threads : TDerefStart(t)
    \/ \E t \in Threads : TCheckLock(t)
    \/ \E t \in Threads : TCheckContains(t)
    \/ \E t \in Threads : TDerefRead(t)
    \/ \E t \in Threads : TReportStart(t)
    \/ \E t \in Threads : TReportLock(t)
    \/ \E t \in Threads : TReportDrain(t)

SpecT == InitT /\ [][NextT]_vars

\* The steps of thread t that wait for nothing, and those that wait for the
\* mutex.
Proceed(t) ==
    \/ TInitInsert(t)
    \/ TUnboxRemove(t)
    \/ TUnboxFree(t)
    \/ TCheckContains(t)
    \/ TDerefRead(t)
    \/ TReportDrain(t)

Locking(t) ==
    \/ TInitLock(t)
    \/ TUnboxLock(t)
    \/ TCheckLock(t)
    \/ TReportLock(t)

\* Every thread that can run does run, and the mutex is fair: a thread that
\* waits for it while it is free again and again gets it.  No thread has to
\* start an operation.
SpecTFair ==
    /\ SpecT
    /\ \A t \in Threads : WF_vars(Proceed(t)) /\ SF_vars(Locking(t))

----------------------------------------------------------------------------
\* Properties.

LiveAddrs == {a \in Addrs : heap[a].st = "live"}
IssuedHandles(kind) == Handles(kind) \ {NullHandle}
\* Handles initialized so far, and those of them consumed.
NInit == Cardinality(IssuedHandles("H"))
MConsumed == Cardinality({h \in IssuedHandles("H") : ~Valid(h)})
Reads == {"as_ref", "deref", "borrow"}
Writes == {"as_mut", "deref_mut"}
Derefs == {"deref", "deref_mut", "borrow"}

\* C1: Handle::new(v).unbox() returns Some(v), in every build and whatever
\* handles were made or consumed before: an unbox that directly follows the
\* new that returned its handle returns Some of the value given to new.
C1_RoundTrip ==
    [][(last.op = "new" /\ last'.op = "unbox" /\ last'.h = last.h)
         => (last'.rk = "Some" /\ last'.rv = last.rv)]_vars

\* The round trip on an address that an earlier, consumed, handle had.
C1_Witness ==
    /\ last.op = "unbox"
    /\ last.after = "new"
    /\ last.rk = "Some"
    /\ last.h.gen = 2

\* C2 as stated: in a diagnostic build the keys of the registry are, in
\* every state, exactly the addresses of the Handle allocations that are
\* initialized and not consumed.
C2_Original ==
    nightly => DOMAIN registry = LiveAddrs

\* C2 amended: the keys are always addresses of allocations that are
\* initialized and not consumed, and they are all of them as long as
\* report_leaks has not run.
C2_Amended ==
    nightly => /\ DOMAIN registry \subseteq LiveAddrs
               /\ ~drained => DOMAIN registry = LiveAddrs

\* An unbox has removed one entry and another handle is still registered.
C2_Witness ==
    /\ nightly
    /\ ~drained
    /\ ~ub
    /\ last.op = "unbox"
    /\ last.rk = "Some"
    /\ DOMAIN registry # {}

C4_Original ==
    (nightly /\ last.op \in Derefs /\ ~Valid(last.h)) => last.rk = "panic"

\* C4 amended: in a diagnostic build a deref, deref_mut or borrow panics
\* exactly when the registry holds no entry for the handle's address: it
\* panics for the null handle and for a consumed handle whose address is not
\* the address of a registered allocation.
C4_Amended ==
    (nightly /\ last.op \in Derefs)
        => (last.rk = "panic" <=> last.h.addr \notin DOMAIN registry)

\* A dereference of a consumed handle has panicked while another handle is
\* registered.
C4_Witness ==
    /\ nightly
    /\ last.op \in Derefs
    /\ last.h # NullHandle
    /\ ~Valid(last.h)
    /\ last.rk = "panic"
    /\ DOMAIN registry # {}

\* C5: in a diagnostic build the first report_leaks prints one line for each
\* of the N - M handles initialized and not consumed, and a report_leaks
\* that directly follows a report_leaks prints none.
C5_Report ==
    /\ [][(nightly /\ ~drained /\ drained')
            => /\ last'.op = "report_leaks"
               /\ last'.rv = NInit - MConsumed
               /\ LineCount(last'.out) = NInit - MConsumed]_vars
    /\ [][(last.op = "report_leaks" /\ last'.op = "report_leaks")
            => (last'.rv = 0 /\ last'.out = NoLines)]_vars

\* The second of two reports, with two handles initialized and one consumed.
C5_Witness ==
    /\ last.op = "report_leaks"
    /\ last.after = "report"
    /\ last.rv = 0
    /\ NInit = 2
    /\ MConsumed = 1

\* C6: in every build unbox, as_ref and as_mut of the null handle return
\* None and do not fail, and unbox of the null handle leaves the registry as
\* it was.
C6_Null ==
    /\ []((last.h = NullHandle /\ last.op \in {"unbox", "as_ref", "as_mut"})
            => (last.rk = "None" /\ ~halted /\ ~ub))
    /\ [][(last'.op = "unbox" /\ last'.h = NullHandle)
            => registry' = registry]_vars

\* unbox of the null handle in a diagnostic build with a handle registered.
C6_Witness ==
    /\ nightly
    /\ last.op = "unbox"
    /\ last.h = NullHandle
    /\ last.rk = "None"
    /\ DOMAIN registry # {}

\* C7: as_ref of a handle that is not consumed returns Some of the
\* allocation's payload; the payload is the value given to init until a
\* write through a handle of the allocation changes it; as_ref and as_mut
\* return None exactly for the null handle.
C7_AsRef ==
    /\ []((last.op = "as_ref" /\ Valid(last.h))
            => (last.rk = "Some" /\ last.rv = heap[last.h.addr].val))
    /\ [](last.op \in {"as_ref", "as_mut"}
            => (last.rk = "None" <=> last.h.addr = VK_NULL_HANDLE))
    /\ [][\A a \in Addrs :
            /\ (heap'[a].st = "live" /\ heap'[a].gen # heap[a].gen)
                => /\ last'.op \in {"new", "init"}
                   /\ last'.h = [addr |-> a, gen |-> heap'[a].gen]
                   /\ heap'[a].val = last'.rv
            /\ (heap[a].st = "live" /\ heap'[a].st = "live"
                    /\ heap'[a].gen = heap[a].gen /\ heap'[a].val # heap[a].val)
                => /\ last'.op \in Writes
                   /\ last'.h = [addr |-> a, gen |-> heap[a].gen]]_vars

\* as_ref of a live handle, beside another initialized handle.
C7_Witness ==
    /\ last.op = "as_ref"
    /\ Valid(last.h)
    /\ last.rk = "Some"
    /\ NInit = 2

C9_Equality ==
    /\ last.op \in {"eq", "deq"}
        => /\ last.rv = 1 <=> last.h.addr = last.h2.addr
           /\ (Valid(last.h) /\ Valid(last.h2) /\ last.h # last.h2) => last.rv = 0
           /\ (last.h = NullHandle /\ last.h2 = NullHandle) => last.rv = 1
    /\ \A x, y, z \in Handles("H") :
        /\ HandleEq(x, x)
        /\ HandleEq(x, y) => HandleEq(y, x)
        /\ (HandleEq(x, y) /\ HandleEq(y, z)) => HandleEq(x, z)
    /\ \A x, y, z \in Handles("D") :
        /\ DHandleEq(x, x)
        /\ DHandleEq(x, y) => DHandleEq(y, x)
        /\ (DHandleEq(x, y) /\ DHandleEq(y, z)) => DHandleEq(x, z)

\* Two live allocations with equal payloads have compared unequal.
C9_Witness ==
    /\ last.op = "eq"
    /\ Valid(last.h)
    /\ Valid(last.h2)
    /\ last.h # last.h2
    /\ heap[last.h.addr].val = heap[last.h2.addr].val
    /\ last.rv = 0

\* C10: DispatchHandle::new(v).unbox() returns v, and what unbox, as_ref,
\* deref, deref_mut and borrow of a DispatchHandle yield is the payload
\* field, never the magic tag.
C10_DispatchRoundTrip ==
    /\ [][(last.op = "dnew" /\ last'.op = "dunbox" /\ last'.h = last.h)
            => (last'.rk = "Some" /\ last'.rv = last.rv)]_vars
    /\ []((last.op \in {"dunbox", "das_ref", "dderef", "dderef_mut", "dborrow"}
             /\ last.rk \in {"Some", "Ref"} /\ ~ub)
            => /\ last.rv # ICD_LOADER_MAGIC
               /\ last.rv \in Values
               /\ Valid(last.h) => last.rv = heap[last.h.addr].val)

\* The round trip of a DispatchHandle.
C10_Witness ==
    /\ last.op = "dunbox"
    /\ last.after = "new"
    /\ last.rk = "Some"

LiveDAddrs == {a \in Addrs : heap[a].st = "liveD"}

\* C11: field 0 of every dispatchable allocation that is initialized and not
\* consumed is ICD_LOADER_MAGIC, whatever operations of DispatchHandle
\* (clone, as_ref, deref, deref_mut, borrow, eq) ran since its init.
C11_TagIntact ==
    \A a \in LiveDAddrs : heap[a].tag = ICD_LOADER_MAGIC

\* A write through deref_mut has returned, beside a second dispatchable
\* allocation.
C11_Witness ==
    /\ last.op = "dderef_mut"
    /\ last.rk = "Ref"
    /\ Valid(last.h)
    /\ Cardinality(LiveDAddrs) = 2

\* C12 as stated: no operation of DispatchHandle changes the payload of a
\* dispatchable allocation between its init and its unbox.
C12_Original ==
    [][\A a \in Addrs :
        (heap[a].st = "liveD" /\ heap'[a].st = "liveD" /\ heap'[a].gen = heap[a].gen)
            => heap'[a].val = heap[a].val]_vars

\* C12 amended: DispatchHandle has no as_mut, and deref_mut is its one
\* operation that changes a payload: the payload of a dispatchable
\* allocation is the value given to init until a deref_mut through a handle
\* of the allocation writes it, and then the value written.
C12_Amended ==
    /\ []((last.op = "dderef_mut" /\ last.rk = "Ref" /\ Valid(last.h))
            => heap[last.h.addr].val = last.rv)
    /\ [][\A a \in Addrs :
            /\ (heap'[a].st = "liveD" /\ heap'[a].gen # heap[a].gen)
                => /\ last'.op \in {"dnew", "dinit"}
                   /\ last'.h = [addr |-> a, gen |-> heap'[a].gen]
                   /\ heap'[a].val = last'.rv
            /\ (heap[a].st = "liveD" /\ heap'[a].st = "liveD"
                    /\ heap'[a].gen = heap[a].gen /\ heap'[a].val # heap[a].val)
                => /\ last'.op = "dderef_mut"
                   /\ last'.h = [addr |-> a, gen |-> heap[a].gen]]_vars

\* A deref_mut that directly follows the init of its handle has replaced the
\* payload by another value.
C12_Witness ==
    /\ last.op = "dderef_mut"
    /\ last.after = "changed"
    /\ last.rk = "Ref"
    /\ heap[last.h.addr].val = last.rv

DOps == {"dalloc", "dinit", "dnew", "dnull", "dunbox", "das_ref", "dderef",
         "dderef_mut", "dborrow", "dclone", "deq"}

\* C13: with the dispatch feature, in a diagnostic build, no operation of
\* DispatchHandle changes the registry or the state of its lock, none of them
\* panics, the registry never holds the address of a dispatchable allocation,
\* and report_leaks prints one line for each registered Handle allocation
\* and none for a dispatchable one.
C13_DispatchUntracked ==
    /\ [](LiveDAddrs \cap DOMAIN registry = {})
    /\ [](last.op \in DOps => last.rk # "panic")
    /\ [][last'.op \in DOps
            => (registry' = registry /\ poisoned' = poisoned)]_vars
    /\ [][(last'.op = "report_leaks" /\ last'.rk = "unit")
            => LineCount(last'.out) = Cardinality(DOMAIN registry \ LiveDAddrs)]_vars

\* report_leaks has printed the one line of a Handle allocation while a
\* dispatchable allocation was initialized and not consumed.
C13_Witness ==
    /\ last.op = "report_leaks"
    /\ last.rv = 1
    /\ LiveDAddrs # {}

LockPcs == {"init_lock", "unbox_lock", "check_lock", "report_lock"}
\* Thread t is at its access to the registry: the insert of init, the remove
\* of unbox, the lookup of check, the drain of report_leaks.
InRegistry(t) ==
    thr[t].pc \in {"init_insert", "unbox_remove", "check_contains", "report_drain"}
\* Thread t is between the initialization of its allocation and the insert
\* of the entry, or between the remove of the entry and the reclaim.
InWindow(t) == thr[t].pc \in {"init_lock", "init_insert", "unbox_free"}

\* C14: a thread is at an access to the registry exactly when it holds the
\* registry's mutex, no two threads are at an access in one state, and the
\* registry changes only in a step of the thread that holds the mutex.
C14_MutualExclusion ==
    /\ [](\A t \in Threads : InRegistry(t) <=> lock = t)
    /\ [](\A t, u \in Threads : (InRegistry(t) /\ InRegistry(u)) => t = u)
    /\ [][registry' # registry
            => /\ lock \in Threads
               /\ InRegistry(lock)
               /\ thr'[lock] # thr[lock]]_vars

\* One thread is at its access while another waits for the mutex.
C14_Witness ==
    \E t, u \in Threads : InRegistry(t) /\ thr[u].pc \in LockPcs

\* C15 as stated: while a thread is between the initialization of its
\* allocation and the insert, or between the remove and the reclaim, no
\* other thread runs an access to the registry.
C15_Original ==
    [][\A t, u \in Threads :
        (t # u /\ InWindow(t) /\ InRegistry(u)) => thr'[u] = thr[u]]_vars

\* C15 amended: the insert and the remove are each one access under the
\* mutex, and accesses of other threads run before the insert and after the
\* remove.  An allocation that is initialized, not reclaimed and not
\* registered is, as long as report_leaks has not run, between its
\* initialization and its insert on some thread (or its init panicked at the
\* lock), or between a remove at its address and the reclaim.
C15_Amended ==
    /\ \A t \in Threads : InRegistry(t) <=> lock = t
    /\ ~drained =>
        \A a \in LiveAddrs \ DOMAIN registry :
            \E t \in Threads :
                /\ thr[t].h.addr = a
                /\ \/ InWindow(t)
                   \/ thr[t].op = "new" /\ thr[t].pc = "panicked"

\* The lookup of a deref on another thread has run, and failed, between the
\* remove of an unbox and its reclaim.
C15_Witness ==
    \E t, u \in Threads :
        /\ thr[t].pc = "unbox_free"
        /\ Valid(thr[t].h)
        /\ thr[u].pc = "panicked"
        /\ thr[u].op = "deref"
        /\ thr[u].h = thr[t].h

\* C16: the mutex is held only by a thread at its access to the registry
\* (not by one that waits for it, has returned or has panicked), a thread
\* takes it only when no thread holds it, and under fair scheduling every
\* operation a thread starts returns or panics, unless the process ends.
C16_Terminates ==
    /\ [](lock # NoThread => (lock \in Threads /\ InRegistry(lock)))
    /\ [][\A t \in Threads :
            (lock' = t /\ lock # t) => (lock = NoThread /\ thr[t].pc \in LockPcs)]_vars
    /\ \A t \in Threads :
        (thr[t].pc # "idle") ~> (thr[t].pc \in {"idle", "panicked"} \/ halted)

\* Two threads wait for the mutex at once.
C16_Witness ==
    \E t, u \in Threads :
        /\ t # u
        /\ thr[t].pc \in LockPcs
        /\ thr[u].pc \in LockPcs
        /\ lock = NoThread

\* C17: in a diagnostic build, in every state of every interleaving, every
\* key of the registry is the address of an allocation that is initialized
\* and not reclaimed, and the address an init is about to insert is not a
\* key of the registry.
C17_RegistryLive ==
    /\ DOMAIN registry \subseteq LiveAddrs
    /\ \A t \in Threads :
        thr[t].pc \in {"init_lock", "init_insert"}
            => thr[t].h.addr \notin DOMAIN registry

\* An unbox has removed its entry and not yet reclaimed its allocation,
\* beside an init that has its allocation and not yet its entry.
C17_Witness ==
    \E t, u \in Threads :
        /\ thr[t].pc = "unbox_free"
        /\ thr[u].pc = "init_insert"

\* C18 as stated: of the unbox calls on copies of one handle, racing on
\* several threads, at most one gets past the remove, and it reclaims the
\* allocation the handle was made for.
C18_Original ==
    \A t \in Threads :
        thr[t].pc = "unbox_free"
            => /\ Valid(thr[t].h)
               /\ \A u \in Threads \ {t} :
                    thr[u].pc = "unbox_free" => thr[u].h # thr[t].h

\* C18 amended: no two unbox calls are past the remove at one address at the
\* same time, and the allocation at that address is initialized and not
\* reclaimed: no allocation is reclaimed twice.  It is the allocation the
\* handle was made for unless the address was initialized again since that
\* one was reclaimed; an unbox that finds no entry panics and reclaims
\* nothing.
C18_Amended ==
    /\ [](\A t \in Threads :
            thr[t].pc = "unbox_free"
                => /\ heap[thr[t].h.addr].st = "live"
                   /\ heap[thr[t].h.addr].gen >= thr[t].h.gen
                   /\ \A u \in Threads \ {t} :
                        thr[u].pc = "unbox_free" => thr[u].h.addr # thr[t].h.addr)
    /\ [][\A t \in Threads :
            (thr[t].pc = "unbox_remove" /\ thr'[t].pc = "panicked")
                => (heap' = heap /\ thr'[t].rk = "panic")]_vars

\* Two unbox calls on one handle are under way on two threads: one has
\* removed the entry and not yet reclaimed, the other has panicked.
C18_Witness ==
    \E t, u \in Threads :
        /\ thr[t].pc = "unbox_free"
        /\ Valid(thr[t].h)
        /\ thr[u].pc = "panicked"
        /\ thr[u].op = "unbox"
        /\ thr[u].h = thr[t].h

\* C19 as stated: an unbox that panics because the registry holds no entry
\* for its address leaves the registry and the heap as they were and the
\* registry's mutex released and not poisoned.
C19_Original ==
    [][\A t \in Threads :
        (thr[t].pc = "unbox_remove" /\ thr'[t].pc = "panicked")
            => /\ registry' = registry
               /\ heap' = heap
               /\ lock' = NoThread
               /\ poisoned' = poisoned]_vars

\* Every content the registry can have.
Registries == UNION {[S -> TypeNames] : S \in SUBSET Addrs}

\* C20 as stated: the lines report_leaks prints show the address of every
\* entry beside its type name, so that two registries whose keys differ
\* never give the same lines.
C20_Original ==
    [][(last'.op = "report_leaks" /\ last'.rk = "unit")
        => \A reg \in Registries :
            DrainLines(reg) = last'.out => DOMAIN reg = DOMAIN registry]_vars

\* C20 amended: report_leaks prints one line for each entry that remains in
\* the registry, and the line holds the type name of the entry alone: for
\* every type name, as many lines as there are entries registered with it.
C20_Amended ==
    [][(last'.op = "report_leaks" /\ last'.rk = "unit")
        => /\ \A t \in TypeNames :
                last'.out[t] = Cardinality({a \in DOMAIN registry : registry[a] = t})
           /\ LineCount(last'.out) = Cardinality(DOMAIN registry)]_vars

\* report_leaks has printed two lines with one type name.
C20_Witness ==
    /\ last.op = "report_leaks"
    /\ last.rk = "unit"
    /\ \E t \in TypeNames : last.out[t] = 2
====
